---- MODULE Spec2Model ----
(***************************************************************************)
(* song_consumer: the queue consumer loop of main(), the batch fan-out of  *)
(* process_songs() and the three-stage resolution task it spawns per line. *)
(* Strings are sequences of one-character strings; the fixed pieces that   *)
(* format!() inserts are single tokens.                                     *)
(***************************************************************************)
EXTENDS Integers, Sequences, FiniteSets, TLC

VARIABLES pc, deliveries, delivery, message, songs, tasks, finished,
          results, links, replyQueue, jar

vars == <<pc, deliveries, delivery, message, songs, tasks, finished,
          results, links, replyQueue, jar>>

(* ---------------------------- bounds ---------------------------------- *)
\* Deliveries the consumer stream hands out, characters of a request text,
\* and tasks spawned over a whole run.
MaxMsgs == 2
MaxTextLen == 2
MaxTasks == 2

Chars == {"a", "\n"}
ChatIds == {7, 9}
VideoIds == {"v"}
Tokens == {"k"}
DLinks == {"d"}
\* Cookies the conversion service can set with a response.
Cookies == {"c"}

(* ---------------------------- strings --------------------------------- *)
RECURSIVE StrsUpTo(_)
StrsUpTo(n) ==
    IF n = 0 THEN {<<>>}
    ELSE LET S == StrsUpTo(n - 1)
         IN  S \cup {Append(s, c) : s \in {t \in S : Len(t) = n - 1}, c \in Chars}

Texts == StrsUpTo(MaxTextLen)

FirstNewline(s) ==
    IF \E i \in 1..Len(s) : s[i] = "\n"
    THEN CHOOSE i \in 1..Len(s) : s[i] = "\n" /\ \A j \in 1..(i - 1) : s[j] # "\n"
    ELSE 0

StripCr(s) ==
    IF Len(s) > 0 /\ s[Len(s)] = "\r" THEN SubSeq(s, 1, Len(s) - 1) ELSE s

\* Mutant of Lines: empty lines are filtered out.
RECURSIVE LinesNonEmpty(_)
LinesNonEmpty(s) ==
    IF s = <<>> THEN <<>>
    ELSE LET k == FirstNewline(s)
         IN  IF k = 0 THEN <<StripCr(s)>>
             ELSE (IF k = 1 THEN <<>> ELSE <<StripCr(SubSeq(s, 1, k - 1))>>)
                      \o LinesNonEmpty(SubSeq(s, k + 1, Len(s)))

\* str::lines(): split at every "\n", drop the terminator (and a "\r" before
\* it); a final empty piece is not a line.
RECURSIVE Lines(_)
Lines(s) ==
    IF s = <<>> THEN <<>>
    ELSE LET k == FirstNewline(s)
         IN  IF k = 0 THEN <<StripCr(s)>>
             ELSE <<StripCr(SubSeq(s, 1, k - 1))>> \o Lines(SubSeq(s, k + 1, Len(s)))

DigitStr == <<"0", "1", "2", "3", "4", "5", "6", "7", "8", "9">>

\* Display of an unsigned integer: its decimal digits.
RECURSIVE Dec(_)
Dec(n) ==
    IF n < 10 THEN <<DigitStr[n + 1]>>
    ELSE Dec(n \div 10) \o <<DigitStr[(n % 10) + 1]>>

\* format!("🎵 *{}*\n🔗 {}", song, dlink)
FormatSong(song, dlink) == <<"<note> *">> \o song \o <<"*", "\n", "<link> ">> \o <<dlink>>

\* Mutant of FormatLink: the 0-based index is printed as it is.
FormatLinkZeroBased(index, link) == Dec(index) \o <<". ">> \o link

\* format!("{}. {}", index + 1, link)   (index is the 0-based enumerate index)
FormatLink(index, link) == Dec(index + 1) \o <<". ">> \o link

\* links.join("\n")
RECURSIVE JoinLines(_)
JoinLines(ls) ==
    IF ls = <<>> THEN <<>>
    ELSE IF Len(ls) = 1 THEN ls[1]
    ELSE ls[1] \o <<"\n">> \o JoinLines(Tail(ls))

(* ---------------------------- values ---------------------------------- *)
NoMessage == [chat_id |-> 0, text |-> <<>>]
NoDelivery == [valid |-> FALSE, chat_id |-> 0, text |-> <<>>]

\* Payloads a producer can put on the "Music" queue: JSON that deserializes
\* into a RabbitMessage, or bytes that do not.
Payloads ==
    {[valid |-> TRUE, chat_id |-> c, text |-> t] : c \in ChatIds, t \in Texts}
    \cup {NoDelivery}

Pending == [kind |-> "pending", val |-> <<>>]
OkResult(s) == [kind |-> "ok", val |-> s]
ErrResult(reason) == [kind |-> "err", val |-> <<reason>>]
JoinError == [kind |-> "panic", val |-> <<>>]

NewTask(d, i, song) ==
    [msg |-> d, index |-> i, song |-> song, pc |-> "search",
     video_id |-> "", k |-> "", dlink |-> "",
     calls |-> [search |-> 0, token |-> 0, convert |-> 0],
     seen |-> {}, stored |-> {},
     result |-> Pending]

\* History kept per delivery handed out by the consumer stream.
NewDelivery(ok) ==
    [ok |-> ok, parsed |-> "no", chat_id |-> 0, resolved |-> "no",
     published |-> "no", acked |-> "no", open |-> ok, reply |-> 0,
     nsongs |-> 0, nok |-> 0,
     logged |-> IF ok THEN "" ELSE "Failed to receive message"]

RECURSIVE SpawnedUpTo(_)
SpawnedUpTo(d) == IF d = 0 THEN 0 ELSE deliveries[d].nsongs + SpawnedUpTo(d - 1)

\* Tasks spawned so far, over all deliveries.
Spawned == SpawnedUpTo(Len(deliveries))

cur == Len(deliveries)

SetCur(field, value) == [deliveries EXCEPT ![cur][field] = value]

(* ---------------------------- process_songs --------------------------- *)
\* The JoinHandles pushed into `tasks` by the current call of process_songs.
Handles == {i \in 1..Len(tasks) : tasks[i].msg = cur}

\* Mutant of JoinAllReady: try_join_all, which resolves at the first failure.
JoinAllReadyFailFast ==
    \/ \E i \in Handles : tasks[i].result.kind \in {"err", "panic"}
    \/ \A i \in Handles : tasks[i].pc = "done"

\* Mutant of JoinAllReady: select_all, which resolves with the first handle.
JoinAllReadyAnyDone ==
    \/ Handles = {}
    \/ \E i \in Handles : tasks[i].pc = "done"

\* Mutant of JoinAllReady: the handles are dropped without being awaited.
JoinAllReadyNoWait == TRUE

\* Mutant of JoinAllReady: the join is wrapped in a timeout and gives up on
\* the handles whose call has not returned.
JoinAllReadyWithTimeout == \A i \in Handles : tasks[i].pc \in {"done", "hung"}

\* join_all(tasks).await resolves when every handle has resolved.
JoinAllReady == \A i \in Handles : tasks[i].pc = "done"

HandleOf(n) == CHOOSE i \in Handles : tasks[i].index = n

\* Mutant of JoinAllResults: the outputs in the order the tasks completed
\* (a FuturesUnordered, or a channel the tasks send to).
JoinAllResultsByCompletion ==
    [n \in 1..Len(finished) |-> tasks[HandleOf(finished[n])].result]

\* join_all yields the outputs in the order of the handles it was given.
JoinAllResults == [n \in 1..Cardinality(Handles) |-> tasks[HandleOf(n - 1)].result]

\* Mutant of CollectFrom: a success is numbered by its place among the
\* successes, not by its index in `results`.
RECURSIVE CollectFromDense(_, _, _)
CollectFromDense(rs, index, acc) ==
    IF index >= Len(rs) THEN acc
    ELSE LET r == rs[index + 1]
         IN  CollectFromDense(rs, index + 1,
                 IF r.kind = "ok" THEN Append(acc, FormatLink(Len(acc), r.val)) ELSE acc)

\* The for loop over results.into_iter().enumerate().
RECURSIVE CollectFrom(_, _, _)
CollectFrom(rs, index, acc) ==
    IF index >= Len(rs) THEN acc
    ELSE LET r == rs[index + 1]
         IN  CollectFrom(rs, index + 1,
                 IF r.kind = "ok" THEN Append(acc, FormatLink(index, r.val)) ELSE acc)

CollectLinks(rs) == CollectFrom(rs, 0, <<>>)

(* ---------------------------- initial state --------------------------- *)
Init ==
    /\ pc = "next"
    /\ deliveries = <<>>
    /\ delivery = NoDelivery
    /\ message = NoMessage
    /\ songs = <<>>
    /\ tasks = <<>>
    /\ finished = <<>>
    /\ results = <<>>
    /\ links = <<>>
    /\ replyQueue = <<>>
    /\ jar = {}

(* ---------------------------- main loop ------------------------------- *)
\* consumer.next() yields Some(Ok(delivery)).
NextDelivery ==
    /\ UNCHANGED jar
    /\ pc = "next"
    /\ Len(deliveries) < MaxMsgs
    /\ \E p \in Payloads :
        /\ Spawned + Len(Lines(p.text)) <= MaxTasks
        /\ delivery' = p
        /\ deliveries' = Append(deliveries, NewDelivery(TRUE))
    /\ pc' = "parse"
    /\ UNCHANGED <<message, songs, tasks, finished, results, links, replyQueue>>

\* Mutant of NextError: the receive error is propagated with `?`.
NextErrorFatal ==
    /\ UNCHANGED jar
    /\ pc = "next"
    /\ Len(deliveries) < MaxMsgs
    /\ deliveries' = Append(deliveries, NewDelivery(FALSE))
    /\ pc' = "exit_err"
    /\ UNCHANGED <<delivery, message, songs, tasks, finished, results, links, replyQueue>>

\* consumer.next() yields Some(Err(e)): logged, the loop goes on.
NextError ==
    /\ UNCHANGED jar
    /\ pc = "next"
    /\ Len(deliveries) < MaxMsgs
    /\ deliveries' = Append(deliveries, NewDelivery(FALSE))
    /\ pc' = "next"
    /\ UNCHANGED <<delivery, message, songs, tasks, finished, results, links, replyQueue>>

\* consumer.next() yields None: the while-let ends and main returns Ok(()).
NextNone ==
    /\ UNCHANGED jar
    /\ pc = "next"
    /\ pc' = "exit_ok"
    /\ UNCHANGED <<deliveries, delivery, message, songs, tasks, finished, results,
                   links, replyQueue>>

\* Mutant of Parse: a payload that does not deserialize is skipped.
ParseSkipMalformed ==
    /\ UNCHANGED jar
    /\ pc = "parse"
    /\ IF delivery.valid
       THEN /\ message' = [chat_id |-> delivery.chat_id, text |-> delivery.text]
            /\ deliveries' = [deliveries EXCEPT ![cur].parsed = "ok",
                                                ![cur].chat_id = delivery.chat_id]
            /\ pc' = "process"
       ELSE /\ message' = message
            /\ deliveries' = [deliveries EXCEPT ![cur].parsed = "fail",
                                                ![cur].open = FALSE]
            /\ pc' = "next"
    /\ UNCHANGED <<delivery, songs, tasks, finished, results, links, replyQueue>>

\* serde_json::from_slice(&delivery.data)?
Parse ==
    /\ UNCHANGED jar
    /\ pc = "parse"
    /\ IF delivery.valid
       THEN /\ message' = [chat_id |-> delivery.chat_id, text |-> delivery.text]
            /\ deliveries' = [deliveries EXCEPT ![cur].parsed = "ok",
                                                ![cur].chat_id = delivery.chat_id]
            /\ pc' = "process"
       ELSE /\ message' = message
            /\ deliveries' = [deliveries EXCEPT ![cur].parsed = "fail",
                                                ![cur].open = FALSE]
            /\ pc' = "exit_err"
    /\ UNCHANGED <<delivery, songs, tasks, finished, results, links, replyQueue>>

\* Mutant of NewJar: one store for the whole process, never rebuilt.
NewJarProcessWide == jar

\* Arc::new(Jar::default()): the store of a new mp3_client holds no cookie.
NewJar == {}

\* process_songs up to the for loop: the clients are built and the text is
\* split.  Client::builder().build()? is the one place process_songs can
\* return Err; main logs it and goes on to the next delivery.
BuildClients ==
    /\ pc = "process"
    /\ \E built \in BOOLEAN :
        IF built
        THEN /\ songs' = Lines(message.text)
             /\ jar' = NewJar
             /\ pc' = IF Lines(message.text) = <<>> THEN "join" ELSE "spawn"
             /\ deliveries' = SetCur("nsongs", Len(Lines(message.text)))
             /\ UNCHANGED <<delivery, message>>
        ELSE /\ deliveries' = [deliveries EXCEPT
                     ![cur].resolved = "err", ![cur].open = FALSE,
                     ![cur].logged = "Error processing message"]
             /\ pc' = "next"
             /\ delivery' = NoDelivery
             /\ message' = NoMessage
             /\ UNCHANGED <<songs, jar>>
    /\ UNCHANGED <<tasks, finished, results, links, replyQueue>>

\* One iteration of `for song in songs`: tokio::spawn and tasks.push.
Spawn ==
    /\ UNCHANGED jar
    /\ pc = "spawn"
    /\ LET n == Cardinality(Handles)
       IN  /\ n < Len(songs)
           /\ tasks' = Append(tasks, NewTask(cur, n, songs[n + 1]))
           /\ pc' = IF n + 1 = Len(songs) THEN "join" ELSE "spawn"
    /\ UNCHANGED <<deliveries, delivery, message, songs, finished, results, links,
                   replyQueue>>

(* ---------------------------- resolution task ------------------------- *)
TaskStep(i, t) ==
    /\ tasks' = [tasks EXCEPT ![i] = t]
    /\ finished' = IF t.pc = "done" /\ t.msg = cur THEN Append(finished, t.index)
                   ELSE finished
    /\ UNCHANGED <<pc, deliveries, delivery, message, songs, results, links, replyQueue>>

\* A step of a task that goes through general_client, which has no cookie
\* store, or through no client at all.
Finish(i, t) == TaskStep(i, t) /\ UNCHANGED jar

\* Mutant of FinishMp3: each task builds a client and a store of its own,
\* which only its own responses fill.
FinishMp3OwnStore(i, t, sc) ==
    /\ TaskStep(i, [t EXCEPT !.seen = t.stored, !.stored = @ \cup sc])
    /\ jar' = jar \cup sc

\* A request through a clone of mp3_client, all of which share the one
\* Arc<Jar>: the request is built with the store as it is then (seen), and
\* the cookies the response sets (sc) are put into the store.
FinishMp3(i, t, sc) ==
    /\ TaskStep(i, [t EXCEPT !.seen = jar, !.stored = @ \cup sc])
    /\ jar' = jar \cup sc

Called(t, stage) == [t EXCEPT !.calls[stage] = @ + 1]

Fail(t, reason) == [t EXCEPT !.pc = "done", !.result = ErrResult(reason)]

\* Mutant of Search: a failed request is tried once more.
SearchWithRetry(i) ==
    /\ tasks[i].pc = "search"
    /\ LET t == Called(tasks[i], "search")
       IN  \/ \E v \in VideoIds : Finish(i, [t EXCEPT !.video_id = v, !.pc = "token"])
           \/ Finish(i, Fail(t, "No video found"))
           \/ IF t.calls.search < 2 THEN Finish(i, t)
              ELSE Finish(i, Fail(t, "request error"))

\* search_youtube(..).await?.ok_or_else(|| "No video found")?
Search(i) ==
    /\ tasks[i].pc = "search"
    /\ LET t == Called(tasks[i], "search")
       IN  \/ \E v \in VideoIds : Finish(i, [t EXCEPT !.video_id = v, !.pc = "token"])
           \/ Finish(i, Fail(t, "No video found"))
           \/ Finish(i, Fail(t, "request error"))

\* Mutant of Token: an absent token is replaced by a default and the task
\* goes on to the convert stage.
TokenIgnoringNone(i) ==
    /\ tasks[i].pc = "token"
    /\ LET t == Called(tasks[i], "token")
       IN  \/ \E k \in Tokens : FinishMp3(i, [t EXCEPT !.k = k, !.pc = "convert"], {})
           \/ FinishMp3(i, [t EXCEPT !.pc = "convert"], {})
           \/ FinishMp3(i, Fail(t, "request error"), {})

\* get_tomp3_k(..).await?.ok_or_else(|| "Failed to get k parameter")?
\* SC: the sets of cookies a response of the service may set.
TokenStep(i, SC) ==
    /\ tasks[i].pc = "token"
    /\ LET t == Called(tasks[i], "token")
       IN  \E sc \in SC :
           \/ \E k \in Tokens : FinishMp3(i, [t EXCEPT !.k = k, !.pc = "convert"], sc)
           \/ FinishMp3(i, Fail(t, "Failed to get k parameter"), sc)
           \/ FinishMp3(i, Fail(t, "request error"), sc)

\* The token stage against a service that sets no cookie.
Token(i) == TokenStep(i, {{}})

\* The token stage against a service that may set a cookie with its response.
TokenCookie(i) == TokenStep(i, SUBSET Cookies)

\* Mutant of ConvertToMp3: `dlink` is optional in the response.
ConvertToMp3Optional ==
    {[tag |-> "some", val |-> d] : d \in DLinks}
    \cup {[tag |-> "none", val |-> ""], [tag |-> "err", val |-> ""]}

\* What convert_to_mp3 can return: Ok(Some(response.dlink)), or the Err of
\* send() or json(); it has no path that returns Ok(None).
ConvertToMp3 ==
    {[tag |-> "some", val |-> d] : d \in DLinks} \cup {[tag |-> "err", val |-> ""]}

\* convert_to_mp3(..).await?.ok_or_else(|| "Failed to get download link")?
ConvertStep(i, SC) ==
    /\ tasks[i].pc = "convert"
    /\ LET t == Called(tasks[i], "convert")
       IN  \E r \in ConvertToMp3, sc \in SC :
               IF r.tag = "err" THEN FinishMp3(i, Fail(t, "request error"), sc)
               ELSE IF r.tag = "none"
                    THEN FinishMp3(i, Fail(t, "Failed to get download link"), sc)
               ELSE FinishMp3(i, [t EXCEPT !.dlink = r.val, !.pc = "done",
                                           !.result = OkResult(FormatSong(t.song, r.val))],
                              sc)

\* The convert stage against a service that sets no cookie.
Convert(i) == ConvertStep(i, {{}})

\* The convert stage against a service that may set a cookie.
ConvertCookie(i) == ConvertStep(i, SUBSET Cookies)

\* The call of the stage the task is at is made and never returns: no
\* timeout bounds it, and the task stays suspended in its await.
Hang(i) ==
    /\ tasks[i].pc \in {"search", "token", "convert"}
    /\ LET t == Called(tasks[i], tasks[i].pc)
       IN  IF tasks[i].pc = "search"
           THEN Finish(i, [t EXCEPT !.pc = "hung"])
           ELSE FinishMp3(i, [t EXCEPT !.pc = "hung"], {})

\* The task panics; its JoinHandle resolves to Err(JoinError).
Panic(i) ==
    /\ tasks[i].pc \notin {"done", "hung"}
    /\ Finish(i, [tasks[i] EXCEPT !.pc = "done", !.result = JoinError])

(* ---------------------------- join and reply -------------------------- *)
\* Mutant of JoinAll: a batch without a single link is returned as an error.
JoinAllErrOnEmpty ==
    /\ UNCHANGED jar
    /\ pc = "join"
    /\ JoinAllReady
    /\ results' = JoinAllResults
    /\ links' = CollectLinks(JoinAllResults)
    /\ IF CollectLinks(JoinAllResults) = <<>>
       THEN /\ deliveries' = [deliveries EXCEPT
                    ![cur].resolved = "err", ![cur].open = FALSE,
                    ![cur].nok = Cardinality({i \in Handles : tasks[i].result.kind = "ok"})]
            /\ pc' = "next"
       ELSE /\ deliveries' = [deliveries EXCEPT
                    ![cur].resolved = "ok",
                    ![cur].nok = Cardinality({i \in Handles : tasks[i].result.kind = "ok"})]
            /\ pc' = "publish"
    /\ UNCHANGED <<delivery, message, songs, tasks, finished, replyQueue>>

\* join_all(tasks).await and the loop that builds `links`; process_songs
\* returns Ok(links).
JoinAll ==
    /\ UNCHANGED jar
    /\ pc = "join"
    /\ JoinAllReady
    /\ results' = JoinAllResults
    /\ links' = CollectLinks(JoinAllResults)
    /\ deliveries' = [deliveries EXCEPT
            ![cur].resolved = "ok",
            ![cur].nok = Cardinality({i \in Handles : tasks[i].result.kind = "ok"})]
    /\ pc' = "publish"
    /\ UNCHANGED <<delivery, message, songs, tasks, finished, replyQueue>>

\* Mutant of Publish: the result of the publish is discarded.
PublishIgnoringFailure ==
    /\ UNCHANGED jar
    /\ pc = "publish"
    /\ \/ /\ replyQueue' = Append(replyQueue,
                              [chat_id |-> message.chat_id, text |-> JoinLines(links)])
          /\ deliveries' = [deliveries EXCEPT ![cur].published = "ok",
                                              ![cur].reply = Len(replyQueue) + 1]
          /\ pc' = "ack"
       \/ /\ replyQueue' = replyQueue
          /\ deliveries' = [deliveries EXCEPT ![cur].published = "fail"]
          /\ pc' = "ack"
    /\ UNCHANGED <<delivery, message, songs, tasks, finished, results, links>>

\* Mutant of Publish: the chat_id of the first parsed message is kept and
\* used for every reply.
PublishFirstChatId ==
    /\ UNCHANGED jar
    /\ pc = "publish"
    /\ \/ /\ replyQueue' = Append(replyQueue,
                [chat_id |-> deliveries[CHOOSE d \in 1..cur :
                                 /\ deliveries[d].parsed = "ok"
                                 /\ \A e \in 1..(d - 1) : deliveries[e].parsed # "ok"].chat_id,
                 text |-> JoinLines(links)])
          /\ deliveries' = [deliveries EXCEPT ![cur].published = "ok",
                                              ![cur].reply = Len(replyQueue) + 1]
          /\ pc' = "ack"
       \/ /\ replyQueue' = replyQueue
          /\ deliveries' = [deliveries EXCEPT ![cur].published = "fail",
                                              ![cur].open = FALSE]
          /\ pc' = "exit_err"
    /\ UNCHANGED <<delivery, message, songs, tasks, finished, results, links>>

\* Mutant of Publish: a failed publish is logged and the loop goes on.
PublishLogAndContinue ==
    /\ UNCHANGED jar
    /\ pc = "publish"
    /\ \/ /\ replyQueue' = Append(replyQueue,
                              [chat_id |-> message.chat_id, text |-> JoinLines(links)])
          /\ deliveries' = [deliveries EXCEPT ![cur].published = "ok",
                                              ![cur].reply = Len(replyQueue) + 1]
          /\ pc' = "ack"
          /\ UNCHANGED <<delivery, message, songs, tasks, finished, results, links>>
       \/ /\ replyQueue' = replyQueue
          /\ deliveries' = [deliveries EXCEPT ![cur].published = "fail",
                                              ![cur].open = FALSE]
          /\ pc' = "next"
          /\ delivery' = NoDelivery
          /\ message' = NoMessage
          /\ songs' = <<>>
          /\ tasks' = SelectSeq(tasks, LAMBDA t : t.pc # "done")
          /\ finished' = <<>>
          /\ results' = <<>>
          /\ links' = <<>>

\* publish_to_reply_queue(&channel, message.chat_id, links).await?
Publish ==
    /\ UNCHANGED jar
    /\ pc = "publish"
    /\ \/ /\ replyQueue' = Append(replyQueue,
                              [chat_id |-> message.chat_id, text |-> JoinLines(links)])
          /\ deliveries' = [deliveries EXCEPT ![cur].published = "ok",
                                              ![cur].reply = Len(replyQueue) + 1]
          /\ pc' = "ack"
       \/ /\ replyQueue' = replyQueue
          /\ deliveries' = [deliveries EXCEPT ![cur].published = "fail",
                                              ![cur].open = FALSE]
          /\ pc' = "exit_err"
    /\ UNCHANGED <<delivery, message, songs, tasks, finished, results, links>>

\* The end of the loop body: the locals of the iteration are dropped; a
\* spawned task lives in the runtime until it has completed.
EndIteration ==
    /\ delivery' = NoDelivery
    /\ message' = NoMessage
    /\ songs' = <<>>
    /\ tasks' = SelectSeq(tasks, LAMBDA t : t.pc # "done")
    /\ finished' = <<>>
    /\ results' = <<>>
    /\ links' = <<>>

\* Mutant of Ack: a failed acknowledgment is logged and the loop goes on.
AckLogAndContinue ==
    /\ UNCHANGED jar
    /\ pc = "ack"
    /\ \/ deliveries' = [deliveries EXCEPT ![cur].acked = "ok", ![cur].open = FALSE]
       \/ deliveries' = [deliveries EXCEPT ![cur].acked = "fail", ![cur].open = FALSE]
    /\ pc' = "next"
    /\ EndIteration
    /\ UNCHANGED replyQueue

\* delivery.ack(BasicAckOptions::default()).await?
Ack ==
    /\ UNCHANGED jar
    /\ pc = "ack"
    /\ \/ /\ deliveries' = [deliveries EXCEPT ![cur].acked = "ok", ![cur].open = FALSE]
          /\ pc' = "next"
          /\ EndIteration
       \/ /\ deliveries' = [deliveries EXCEPT ![cur].acked = "fail", ![cur].open = FALSE]
          /\ pc' = "exit_err"
          /\ UNCHANGED <<delivery, message, songs, tasks, finished, results, links>>
    /\ UNCHANGED replyQueue

Next ==
    \/ NextDelivery
    \/ NextError
    \/ NextNone
    \/ Parse
    \/ BuildClients
    \/ Spawn
    \/ \E i \in 1..Len(tasks) : Search(i)
    \/ \E i \in 1..Len(tasks) : Token(i)
    \/ \E i \in 1..Len(tasks) : Convert(i)
    \/ \E i \in 1..Len(tasks) : Panic(i)
    \/ \E i \in 1..Len(tasks) : Hang(i)
    \/ JoinAll
    \/ Publish
    \/ Ack

\* The conversion service sets no cookie.
Spec == Init /\ [][Next]_vars

MainStep ==
    \/ NextDelivery
    \/ NextError
    \/ NextNone
    \/ Parse
    \/ BuildClients
    \/ Spawn
    \/ JoinAll
    \/ Publish
    \/ Ack

\* The steps of main between the receipt of a delivery and the next
\* consumer.next(): the executor runs main whenever it can go on.
Handle == Parse \/ BuildClients \/ Spawn \/ JoinAll \/ Publish \/ Ack

\* The runs in which the conversion service may set cookies with any of its
\* responses, every call returns and no task panics.
NextCookie ==
    \/ MainStep
    \/ \E i \in 1..Len(tasks) : Search(i)
    \/ \E i \in 1..Len(tasks) : TokenCookie(i)
    \/ \E i \in 1..Len(tasks) : ConvertCookie(i)

CookieSpec == Init /\ [][NextCookie]_vars

\* The call that task i awaits returns, or the task panics.
Resume(i) ==
    /\ i \in 1..Len(tasks)
    /\ Search(i) \/ Token(i) \/ Convert(i) \/ Panic(i)

\* The tokio executor polls every task that can go on, and main too.
FairSpec ==
    /\ Init
    /\ [][Next]_vars
    /\ WF_vars(Handle)
    /\ \A i \in 1..MaxTasks : WF_vars(Resume(i) \/ (i \in 1..Len(tasks) /\ Hang(i)))

TypeOK ==
    /\ pc \in {"next", "parse", "process", "spawn", "join", "publish", "ack",
               "exit_ok", "exit_err"}
    /\ Len(deliveries) <= MaxMsgs
    /\ Spawned <= MaxTasks

(* ---------------------------- reading a reply ------------------------- *)
IndexOfTok(s, tok) ==
    IF \E i \in 1..Len(s) : s[i] = tok
    THEN CHOOSE i \in 1..Len(s) : s[i] = tok /\ \A j \in 1..(i - 1) : s[j] # tok
    ELSE 0

DigitVal(c) == CHOOSE d \in 0..9 : DigitStr[d + 1] = c

RECURSIVE ParseDec(_)
ParseDec(ds) ==
    IF ds = <<>> THEN 0
    ELSE 10 * ParseDec(SubSeq(ds, 1, Len(ds) - 1)) + DigitVal(ds[Len(ds)])

\* An entry takes two physical lines of the text: "{n}. <note> *{song}*" and
\* "<link> {dlink}".  The headers are the odd lines.
Headers(text) ==
    LET ls == Lines(text)
    IN  [j \in 1..(Len(ls) \div 2) |-> ls[2 * j - 1]]

NumberOf(header) == ParseDec(SubSeq(header, 1, IndexOfTok(header, ". ") - 1))

SongOf(header) == SubSeq(header, IndexOfTok(header, "<note> *") + 1, Len(header) - 1)

Numbers(text) == [j \in 1..Len(Headers(text)) |-> NumberOf(Headers(text)[j])]

NamedSongs(text) == [j \in 1..Len(Headers(text)) |-> SongOf(Headers(text)[j])]

\* The task spawned for input line n (1-based) of the current batch.
TaskAt(n) ==
    tasks[CHOOSE i \in 1..Len(tasks) : tasks[i].msg = cur /\ tasks[i].index = n - 1]

BatchSize == Cardinality({i \in 1..Len(tasks) : tasks[i].msg = cur})

Succeeded(n) == TaskAt(n).result.kind = "ok"

\* The 1-based input positions, up to n, of the songs that succeeded, ascending.
RECURSIVE OkPositions(_)
OkPositions(n) ==
    IF n = 0 THEN <<>>
    ELSE IF Succeeded(n) THEN Append(OkPositions(n - 1), n) ELSE OkPositions(n - 1)

\* process_songs has returned Ok and its tasks are still on record.
Returned == pc \in {"publish", "ack"}

\* The reply of the current delivery has just been published.
JustPublished == pc = "ack" /\ deliveries[cur].published = "ok"

LastReply == replyQueue[deliveries[cur].reply]

Closed(d) == deliveries[d].ok /\ ~deliveries[d].open

(* ---------------------------- C1 -------------------------------------- *)
\* C1 as stated: the entries of every published reply are numbered densely
\* 1..K, K the number of songs that succeeded.
C1_DenseNumbering ==
    \A r \in 1..Len(replyQueue) :
        \A j \in 1..Len(Headers(replyQueue[r].text)) :
            Numbers(replyQueue[r].text)[j] = j

\* C1 amended: a failed song is omitted, and the entries of the published
\* reply carry, in ascending order, the 1-based input positions of the songs
\* that succeeded (a success after a failure keeps its own position).
C1_PositionalNumbering ==
    JustPublished => Numbers(LastReply.text) = OkPositions(BatchSize)

C1_Witness ==
    /\ JustPublished
    /\ BatchSize = 2
    /\ ~Succeeded(1)
    /\ Succeeded(2)
    /\ Numbers(LastReply.text) = <<2>>

(* ---------------------------- C2 -------------------------------------- *)
\* C2 as stated: once the handling of a delivery has ended, it is
\* acknowledged if and only if its resolution and its publish both succeeded.
C2_AckIffResolvedAndPublished ==
    \A d \in 1..Len(deliveries) :
        Closed(d) =>
            (deliveries[d].acked = "ok"
                <=> deliveries[d].resolved = "ok" /\ deliveries[d].published = "ok")

\* C2 amended: a delivery is acknowledged only after process_songs returned Ok
\* and its reply is on the reply queue, and a delivery whose resolution and
\* publish both succeeded ends acknowledged unless the acknowledge call itself
\* failed.
C2_AckIffAllSucceeded ==
    \A d \in 1..Len(deliveries) :
        /\ deliveries[d].acked = "ok" =>
              /\ deliveries[d].resolved = "ok"
              /\ deliveries[d].published = "ok"
              /\ deliveries[d].reply \in 1..Len(replyQueue)
        /\ deliveries[d].acked # "no" => deliveries[d].published = "ok"
        /\ Closed(d) /\ deliveries[d].resolved = "ok" /\ deliveries[d].published = "ok"
              => deliveries[d].acked \in {"ok", "fail"}
        /\ Closed(d) /\ deliveries[d].resolved # "ok" => deliveries[d].acked = "no"
        /\ Closed(d) /\ deliveries[d].published # "ok" => deliveries[d].acked = "no"

C2_Witness ==
    \E d, e \in 1..Len(deliveries) :
        /\ Closed(d) /\ deliveries[d].acked = "ok"
        /\ Closed(e) /\ deliveries[e].published = "ok" /\ deliveries[e].acked = "fail"

(* ---------------------------- C3 -------------------------------------- *)
\* C3 as stated: a delivery all of whose songs failed ends with an empty
\* reply published and with the delivery acknowledged.
C3_AllFailedPublishedAndAcked ==
    \A d \in 1..Len(deliveries) :
        Closed(d) /\ deliveries[d].nsongs > 0 /\ deliveries[d].nok = 0
            /\ deliveries[d].resolved # "no"
            => /\ deliveries[d].resolved = "ok"
               /\ deliveries[d].published = "ok"
               /\ replyQueue[deliveries[d].reply].text = <<>>
               /\ deliveries[d].acked = "ok"

\* C3 amended: when every song of a batch fails, process_songs returns Ok
\* with an empty list, the publish is attempted with empty text, a reply
\* that is published has empty text, and the delivery is acknowledged
\* whenever the publish and the acknowledge calls succeed.
C3_AllFailedEmptyReply ==
    \A d \in 1..Len(deliveries) :
        deliveries[d].nsongs > 0 /\ deliveries[d].nok = 0
            /\ deliveries[d].resolved # "no"
            => /\ deliveries[d].resolved = "ok"
               /\ d = cur /\ pc = "publish" => /\ links = <<>>
                                               /\ \A n \in 1..BatchSize : ~Succeeded(n)
               /\ Closed(d) => deliveries[d].published # "no"
               /\ deliveries[d].published = "ok" =>
                     /\ replyQueue[deliveries[d].reply].text = <<>>
                     /\ replyQueue[deliveries[d].reply].chat_id = deliveries[d].chat_id
               /\ Closed(d) /\ deliveries[d].published = "ok"
                     => deliveries[d].acked \in {"ok", "fail"}

C3_Witness ==
    \E d \in 1..Len(deliveries) :
        /\ deliveries[d].nsongs = 2
        /\ deliveries[d].nok = 0
        /\ deliveries[d].acked = "ok"
        /\ replyQueue[deliveries[d].reply].text = <<>>

(* ---------------------------- C4 -------------------------------------- *)
\* C4: when the request text is not empty and every song of it resolved, the
\* published reply has one entry per input line, entry i is numbered i and
\* names the song of input line i.
C4_AllSucceed ==
    JustPublished /\ message.text # <<>> /\ (\A n \in 1..BatchSize : Succeeded(n))
        => /\ Len(Headers(LastReply.text)) = Len(songs)
           /\ Len(songs) >= 1
           /\ \A i \in 1..Len(songs) :
                /\ Numbers(LastReply.text)[i] = i
                /\ NamedSongs(LastReply.text)[i] = songs[i]
                /\ songs[i] = TaskAt(i).song

C4_Witness ==
    /\ JustPublished
    /\ Len(songs) = 2
    /\ songs[1] # songs[2]
    /\ \A n \in 1..BatchSize : Succeeded(n)
    /\ Numbers(LastReply.text) = <<1, 2>>

(* ---------------------------- C5 -------------------------------------- *)
\* C5: a task that has not ended can always take its next step, whatever
\* became of its siblings; once tasks were spawned process_songs does not
\* return Err; and when it returns, every task of the batch has ended and
\* every task that succeeded has its entry in the list.
C5_TaskIsolation ==
    /\ \A i \in 1..Len(tasks) :
          tasks[i].pc \notin {"done", "hung"}
              => ENABLED (Search(i) \/ Token(i) \/ Convert(i))
    /\ \A d \in 1..Len(deliveries) :
          deliveries[d].nsongs > 0 => deliveries[d].resolved # "err"
    /\ Returned =>
          /\ deliveries[cur].resolved = "ok"
          /\ BatchSize = Len(songs)
          /\ Len(results) = Len(songs)
          /\ \A n \in 1..BatchSize :
                /\ TaskAt(n).pc = "done"
                /\ Succeeded(n) =>
                      \E j \in 1..Len(links) :
                          /\ SongOf(Lines(links[j])[1]) = TaskAt(n).song
                          /\ NumberOf(Lines(links[j])[1]) = n
                          /\ links[j][Len(links[j])] = TaskAt(n).dlink

C5_Witness ==
    /\ Returned
    /\ BatchSize = 2
    /\ \E m, n \in 1..2 :
          /\ TaskAt(m).result.kind \in {"err", "panic"}
          /\ Succeeded(n)
          /\ finished = <<m - 1, n - 1>>
    /\ Len(links) = 1

(* ---------------------------- C6 -------------------------------------- *)
\* C6: a stage is invoked at most once and only after the stage before it
\* returned a value; after a stage returned None or an error no later stage is
\* invoked, and only a task whose three stages returned values yields a line.
C6_StagesInSequence ==
    /\ \A i \in 1..Len(tasks) :
          LET t == tasks[i]
          IN  /\ t.calls.search \in {0, 1}
              /\ t.calls.token \in {0, 1}
              /\ t.calls.convert \in {0, 1}
              /\ t.calls.token = 1 => t.calls.search = 1 /\ t.video_id # ""
              /\ t.calls.convert = 1 => t.calls.token = 1 /\ t.k # ""
              /\ t.video_id = "" => t.calls.token = 0 /\ t.calls.convert = 0
              /\ t.k = "" => t.calls.convert = 0
              /\ t.result = ErrResult("No video found")
                    => t.calls = [search |-> 1, token |-> 0, convert |-> 0]
              /\ t.result = ErrResult("Failed to get k parameter")
                    => t.calls = [search |-> 1, token |-> 1, convert |-> 0]
              /\ t.result.kind = "ok"
                    => /\ t.calls = [search |-> 1, token |-> 1, convert |-> 1]
                       /\ t.video_id # "" /\ t.k # "" /\ t.dlink # ""
    /\ Returned =>
          \A j \in 1..Len(links) :
              LET n == NumberOf(Lines(links[j])[1])
              IN  /\ n \in 1..BatchSize
                  /\ TaskAt(n).calls = [search |-> 1, token |-> 1, convert |-> 1]
                  /\ TaskAt(n).dlink # ""

C6_Witness ==
    /\ Returned
    /\ \E n \in 1..BatchSize :
          /\ TaskAt(n).result = ErrResult("Failed to get k parameter")
          /\ TaskAt(n).calls.convert = 0
    /\ links = <<>>

(* ---------------------------- C7 -------------------------------------- *)
\* C7: a delivery whose payload does not parse is the last one consumed: main
\* has returned with the error, no task was spawned for it, no reply was
\* published for it and it was not acknowledged.
C7_ParseFailureHalts ==
    \A d \in 1..Len(deliveries) :
        deliveries[d].parsed = "fail"
            => /\ d = Len(deliveries)
               /\ pc = "exit_err"
               /\ deliveries[d].nsongs = 0
               /\ \A i \in 1..Len(tasks) : tasks[i].msg # d
               /\ deliveries[d].resolved = "no"
               /\ deliveries[d].published = "no"
               /\ deliveries[d].reply = 0
               /\ deliveries[d].acked = "no"
               /\ Len(replyQueue) =
                     Cardinality({e \in 1..(d - 1) : deliveries[e].published = "ok"})

C7_Witness ==
    /\ Len(deliveries) < MaxMsgs
    /\ \E d \in 1..Len(deliveries) : deliveries[d].parsed = "fail"
    /\ pc = "exit_err"
    /\ tasks = <<>>

(* ---------------------------- C8 -------------------------------------- *)
\* C8 as stated: after a failed publish the delivery is unacknowledged and
\* the loop has not ended.
C8_PublishFailureContinues ==
    \A d \in 1..Len(deliveries) :
        deliveries[d].published = "fail"
            => deliveries[d].acked = "no" /\ pc \notin {"exit_ok", "exit_err"}

\* C8 amended: after a failed publish the delivery is unacknowledged and the
\* consumer has ended: main has returned with the error and the delivery is
\* the last one consumed.
C8_PublishFailureHalts ==
    \A d \in 1..Len(deliveries) :
        deliveries[d].published = "fail"
            => /\ deliveries[d].acked = "no"
               /\ deliveries[d].reply = 0
               /\ pc = "exit_err"
               /\ d = Len(deliveries)

C8_Witness ==
    /\ Len(deliveries) < MaxMsgs
    /\ \E d \in 1..Len(deliveries) :
          deliveries[d].published = "fail" /\ deliveries[d].acked = "no"
    /\ pc = "exit_err"

(* ---------------------------- C9 -------------------------------------- *)
\* C9: whatever the order in which the tasks completed, the songs named by
\* the entries are the songs that succeeded, in the order of their input lines.
C9_InputOrder ==
    /\ Returned =>
          [j \in 1..Len(links) |-> SongOf(Lines(links[j])[1])]
              = [j \in 1..Len(OkPositions(BatchSize)) |->
                    songs[OkPositions(BatchSize)[j]]]
    /\ JustPublished =>
          NamedSongs(LastReply.text)
              = [j \in 1..Len(OkPositions(BatchSize)) |->
                    songs[OkPositions(BatchSize)[j]]]

C9_Witness ==
    /\ JustPublished
    /\ finished = <<1, 0>>
    /\ songs[1] # songs[2]
    /\ NamedSongs(LastReply.text) = songs

(* ---------------------------- C10 ------------------------------------- *)
\* C10: at most one delivery is between received and acknowledged-or-dropped,
\* it is the latest one, and a task that has not ended belongs to it: every
\* earlier delivery is closed and has no task left.
C10_OneAtATime ==
    /\ Cardinality({d \in 1..Len(deliveries) : deliveries[d].open}) <= 1
    /\ \A d \in 1..Len(deliveries) : deliveries[d].open => d = cur
    /\ \A i \in 1..Len(tasks) :
          /\ tasks[i].msg = cur
          /\ tasks[i].pc # "done" => deliveries[cur].open /\ pc \in {"spawn", "join"}
    /\ pc \in {"parse", "process", "spawn", "join", "publish", "ack"}
          => deliveries[cur].open

C10_Witness ==
    /\ cur = 2
    /\ Closed(1)
    /\ deliveries[1].nsongs > 0
    /\ \E i \in 1..Len(tasks) : tasks[i].msg = 2 /\ tasks[i].pc # "done"

(* ---------------------------- C12 ------------------------------------- *)
NewlineAt(text) == {k \in 1..Len(text) : text[k] = "\n"}

\* The number of lines of a text, counted from its newlines: one per newline,
\* and one more for a last piece that no newline ends.
LineCount(text) ==
    Cardinality(NewlineAt(text))
        + (IF text # <<>> /\ text[Len(text)] # "\n" THEN 1 ELSE 0)

NthNewline(text, n) ==
    CHOOSE k \in NewlineAt(text) : Cardinality({j \in NewlineAt(text) : j < k}) = n - 1

\* The n-th line of a text: what stands between newline n - 1 and newline n.
Piece(text, n) ==
    SubSeq(text,
           IF n = 1 THEN 1 ELSE NthNewline(text, n - 1) + 1,
           IF n <= Cardinality(NewlineAt(text)) THEN NthNewline(text, n) - 1
           ELSE Len(text))

NonEmptyLineCount(text) ==
    Cardinality({n \in 1..LineCount(text) : Piece(text, n) # <<>>})

\* The lines of every text a message can carry, first to last.
LinePieces == [text \in Texts |-> [n \in 1..LineCount(text) |-> Piece(text, n)]]

AllLaunched == pc \in {"join", "publish", "ack"}

\* C12 as stated: one task per non-empty line, and no task for an empty line.
C12_TaskPerNonEmptyLine ==
    AllLaunched =>
        /\ BatchSize = NonEmptyLineCount(message.text)
        /\ \A i \in 1..Len(tasks) : tasks[i].song # <<>>

\* C12 amended: one task per line that str::lines() yields, an empty line
\* included: task n resolves line n of the text, whatever it holds.
C12_TaskPerLine ==
    tasks # <<>> \/ AllLaunched =>
        LET pieces == LinePieces[message.text]
        IN  /\ \A i \in 1..Len(tasks) :
                  /\ tasks[i].index + 1 \in 1..Len(pieces)
                  /\ tasks[i].song = pieces[tasks[i].index + 1]
                  /\ \A j \in 1..Len(tasks) : tasks[j].index = tasks[i].index => j = i
            /\ AllLaunched => BatchSize = Len(pieces)

C12_Witness ==
    /\ AllLaunched
    /\ BatchSize = 2
    /\ TaskAt(1).song = <<>>
    /\ TaskAt(2).song # <<>>
    /\ NonEmptyLineCount(message.text) = 1

(* ---------------------------- C13 ------------------------------------- *)
\* C13: an error item of the consumer stream is logged and nothing else is
\* done for it: nothing is parsed, resolved, published or acknowledged, the
\* loop is back at consumer.next(), and a further delivery can be consumed.
C13_ReceiveErrorContinues ==
    /\ \A d \in 1..Len(deliveries) :
          ~deliveries[d].ok =>
              /\ deliveries[d].logged = "Failed to receive message"
              /\ deliveries[d].parsed = "no"
              /\ deliveries[d].resolved = "no"
              /\ deliveries[d].published = "no"
              /\ deliveries[d].reply = 0
              /\ deliveries[d].acked = "no"
              /\ deliveries[d].nsongs = 0
              /\ d = cur => pc \in {"next", "exit_ok"}
              /\ d = cur /\ pc = "next" /\ d < MaxMsgs => ENABLED NextDelivery
    /\ Len(replyQueue) <= Cardinality({d \in 1..Len(deliveries) : deliveries[d].ok})

C13_Witness ==
    /\ Len(deliveries) = 2
    /\ ~deliveries[1].ok
    /\ deliveries[2].ok
    /\ deliveries[2].acked = "ok"

(* ---------------------------- C14 ------------------------------------- *)
\* C14: the replies on the queue are, one for one, the replies of the
\* deliveries whose publish succeeded, and each carries the chat_id that the
\* payload of its delivery held.
C14_OneReplyRightChat ==
    /\ Len(replyQueue)
          = Cardinality({d \in 1..Len(deliveries) : deliveries[d].published = "ok"})
    /\ \A d \in 1..Len(deliveries) :
          IF deliveries[d].published = "ok"
          THEN /\ deliveries[d].reply \in 1..Len(replyQueue)
               /\ replyQueue[deliveries[d].reply].chat_id = deliveries[d].chat_id
               /\ deliveries[d].chat_id \in ChatIds
               /\ \A e \in 1..Len(deliveries) :
                     deliveries[e].reply = deliveries[d].reply => e = d
          ELSE deliveries[d].reply = 0
    /\ pc \in {"process", "spawn", "join", "publish", "ack"}
          => message.chat_id = delivery.chat_id /\ deliveries[cur].chat_id = delivery.chat_id

C14_Witness ==
    /\ Len(replyQueue) = 2
    /\ replyQueue[1].chat_id # replyQueue[2].chat_id
    /\ deliveries[1].chat_id = replyQueue[1].chat_id
    /\ deliveries[2].chat_id = replyQueue[2].chat_id

(* ---------------------------- C15 ------------------------------------- *)
StepOf(rec) ==
    IF rec.acked = "ok" THEN 5
    ELSE IF rec.published = "ok" THEN 4
    ELSE IF rec.resolved = "ok" THEN 3
    ELSE IF rec.parsed = "ok" THEN 2
    ELSE 1

Step(d) == StepOf(deliveries[d])

\* C15: a delivery moves through Received, Parsed, Resolved, Published,
\* Acknowledged one step at a time and never backwards; it is Resolved, and so
\* published, only when every task of its batch has ended, and the
\* acknowledge call is made only after the publish succeeded.
C15_StepOrder ==
    [][ /\ \A d \in 1..Len(deliveries) :
              /\ Step(d)' >= Step(d)
              /\ Step(d)' <= Step(d) + 1
        /\ Len(deliveries') > Len(deliveries) =>
              StepOf(deliveries'[Len(deliveries')]) = 1
        /\ Len(deliveries) > 0 /\ Step(cur)' >= 3 =>
              \A i \in 1..Len(tasks) : tasks[i].msg = cur => tasks[i].pc = "done"
        /\ Len(deliveries) > 0 /\ Step(cur)' >= 3 /\ Step(cur) = 2 =>
              BatchSize = Len(songs)
        /\ \A d \in 1..Len(deliveries) :
              deliveries'[d].acked # "no" => deliveries[d].published = "ok"
      ]_vars

C15_Witness ==
    /\ Len(deliveries) >= 1
    /\ Step(1) = 5
    /\ deliveries[1].nsongs = 2
    /\ deliveries[1].nok = 1

(* ---------------------------- C16 ------------------------------------- *)
\* C16: no stage is invoked twice for a line, a line has one task, a task
\* that has ended stays as it ended, and a delivery whose handling has ended
\* is not taken up again.
C16_NoRetries ==
    [][ /\ \A i \in 1..Len(tasks') :
              /\ tasks'[i].calls.search <= 1
              /\ tasks'[i].calls.token <= 1
              /\ tasks'[i].calls.convert <= 1
              /\ \A j \in 1..Len(tasks') :
                    tasks'[j].msg = tasks'[i].msg /\ tasks'[j].index = tasks'[i].index
                        => j = i
        /\ \A i \in 1..Len(tasks) :
              tasks[i].pc = "done" /\ Len(tasks') >= Len(tasks) => tasks'[i] = tasks[i]
        /\ \A d \in 1..Len(deliveries) :
              ~deliveries[d].open => deliveries'[d] = deliveries[d]
        /\ Len(replyQueue') <= Len(replyQueue) + 1
        /\ \A r \in 1..Len(replyQueue) : replyQueue'[r] = replyQueue[r]
      ]_vars

C16_Witness ==
    /\ cur = 2
    /\ deliveries[1].resolved = "err"
    /\ \E i \in 1..Len(tasks) :
          /\ tasks[i].result = ErrResult("request error")
          /\ tasks[i].calls = [search |-> 1, token |-> 0, convert |-> 0]
    /\ pc = "publish"

(* ---------------------------- C18 ------------------------------------- *)
\* C18: the number of an entry is the 1-based input position of its song:
\* the entry names the song of that line and that line's task succeeded; so
\* the numbers increase strictly and none exceeds the number of input lines.
C18_NumberIsInputPosition ==
    JustPublished =>
        LET ns == Numbers(LastReply.text)
        IN  /\ \A j \in 1..Len(ns) :
                  /\ ns[j] \in 1..Len(songs)
                  /\ ns[j] <= LineCount(message.text)
                  /\ NamedSongs(LastReply.text)[j] = songs[ns[j]]
                  /\ Succeeded(ns[j])
                  /\ TaskAt(ns[j]).index + 1 = ns[j]
            /\ \A j, k \in 1..Len(ns) : j < k => ns[j] < ns[k]
            /\ Len(ns) = deliveries[cur].nok

C18_Witness ==
    /\ JustPublished
    /\ Len(songs) = 2
    /\ songs[1] # songs[2]
    /\ ~Succeeded(1)
    /\ Numbers(LastReply.text) = <<2>>
    /\ NamedSongs(LastReply.text) = <<songs[2]>>

(* ---------------------------- C19 ------------------------------------- *)
Acknowledged == {d \in 1..Len(deliveries) : deliveries[d].acked = "ok"}

ParsedOk == {d \in 1..Len(deliveries) : deliveries[d].parsed = "ok"}

\* C19: the replies published are at most the deliveries parsed and exceed
\* the acknowledgments sent by 0 or 1; after a failed acknowledge call main
\* has returned, with the reply of that delivery published and the delivery
\* unacknowledged.
C19_RepliesAndAcks ==
    /\ Len(replyQueue) <= Cardinality(ParsedOk)
    /\ Len(replyQueue) - Cardinality(Acknowledged) \in {0, 1}
    /\ \A d \in 1..Len(deliveries) :
          deliveries[d].acked = "fail" =>
              /\ pc = "exit_err"
              /\ d = Len(deliveries)
              /\ deliveries[d].published = "ok"
              /\ deliveries[d].reply = Len(replyQueue)
              /\ d \notin Acknowledged
              /\ Len(replyQueue) - Cardinality(Acknowledged) = 1

C19_Witness ==
    /\ Len(deliveries) = 2
    /\ deliveries[1].acked = "ok"
    /\ deliveries[2].acked = "fail"
    /\ Len(replyQueue) = 2
    /\ pc = "exit_err"

(* ---------------------------- C20 ------------------------------------- *)
\* C20: convert_to_mp3 never returns Ok(None); a task that ended with an
\* error ended with "No video found", "Failed to get k parameter" or a
\* request error, never with "Failed to get download link", and a task whose
\* convert stage was called ended with a link or a request error.
C20_ConvertNeverAbsent ==
    /\ \A r \in ConvertToMp3 : r.tag \in {"some", "err"}
    /\ \A i \in 1..Len(tasks) :
          /\ tasks[i].result.kind = "err" =>
                /\ tasks[i].result.val \in
                      {<<"No video found">>, <<"Failed to get k parameter">>,
                       <<"request error">>}
                /\ tasks[i].result # ErrResult("Failed to get download link")
          /\ tasks[i].calls.convert = 1 /\ tasks[i].pc = "done" =>
                \/ tasks[i].result.kind = "ok" /\ tasks[i].dlink \in DLinks
                \/ tasks[i].result = ErrResult("request error")
                \/ tasks[i].result = JoinError

C20_Witness ==
    \E i, j \in 1..Len(tasks) :
        /\ tasks[i].calls.convert = 1
        /\ tasks[i].result = ErrResult("request error")
        /\ tasks[j].calls.convert = 1
        /\ tasks[j].result.kind = "ok"

(* ---------------------------- C11 ------------------------------------- *)
ConversionCalls(t) == t.calls.token + t.calls.convert

Hung(d) == \E i \in 1..Len(tasks) : tasks[i].msg = d /\ tasks[i].pc = "hung"

\* C17 as stated: a well-formed message whose handling is over, without a
\* failed publish or acknowledge call, has been replied to and acknowledged.
C17_WellFormedRepliedAndAcked ==
    \A d \in 1..Len(deliveries) :
        /\ Closed(d)
        /\ deliveries[d].parsed = "ok"
        /\ deliveries[d].published # "fail"
        /\ deliveries[d].acked # "fail"
        => deliveries[d].published = "ok" /\ deliveries[d].acked = "ok"

\* C17: a consumed message that parsed is eventually replied to and
\* acknowledged, unless process_songs returns an error, the publish or the
\* acknowledge call fails, or a call of one of its tasks never returns; a
\* message for which process_songs returned an error is never replied to or
\* acknowledged; and once a call never returns, the batch is the current one
\* and stays at the spawn loop or the join, nothing is published or
\* acknowledged for it, and no further message is consumed.
C17_LivenessAndItsLimit ==
    /\ \A d \in 1..MaxMsgs :
          (d <= Len(deliveries) /\ deliveries[d].parsed = "ok")
              ~> /\ d <= Len(deliveries)
                 /\ \/ deliveries[d].published = "ok" /\ deliveries[d].acked = "ok"
                    \/ deliveries[d].resolved = "err"
                    \/ deliveries[d].published = "fail"
                    \/ deliveries[d].acked = "fail"
                    \/ Hung(d)
    /\ [](\A d \in 1..Len(deliveries) :
              deliveries[d].resolved = "err"
                  => /\ deliveries[d].published = "no"
                     /\ deliveries[d].reply = 0
                     /\ deliveries[d].acked = "no")
    /\ [](\A i \in 1..Len(tasks) :
              tasks[i].pc = "hung"
                  => /\ tasks[i].msg = cur
                     /\ pc \in {"spawn", "join"}
                     /\ deliveries[cur].open
                     /\ deliveries[cur].published = "no"
                     /\ deliveries[cur].reply = 0
                     /\ deliveries[cur].acked = "no")
    /\ [][(\E i \in 1..Len(tasks) : tasks[i].pc = "hung")
              => /\ Len(deliveries') = Len(deliveries)
                 /\ replyQueue' = replyQueue
                 /\ \A i \in 1..Len(tasks) :
                       tasks[i].pc = "hung"
                           => i <= Len(tasks') /\ tasks'[i].pc = "hung"]_vars

C17_Witness ==
    /\ cur = 2
    /\ deliveries[1].nsongs = 1
    /\ deliveries[1].published = "ok"
    /\ deliveries[1].acked = "ok"
    /\ Hung(2)
    /\ pc = "join"
    /\ Len(replyQueue) = 1
====
